---- MODULE Spec2Model ----
(***************************************************************************)
(* breath-wise-scan: the browser client's audio capture and ingest path.   *)
(*                                                                         *)
(*   - audioBufferToWav / convertWebMToWAV : WAV encoder and transcoder    *)
(*   - useAudioRecorder                    : the recording controller      *)
(*   - AudioRecorder / FileUploader / Index: hand-off to analyzeAudio      *)
(*   - validateAudioFile / validateFile    : ingest validators             *)
(*                                                                         *)
(* Bytes are integers 0..255, byte buffers are sequences of bytes.         *)
(* Float samples are fixed-point numbers n / SampleUnit.                   *)
(***************************************************************************)
EXTENDS Integers, Sequences, FiniteSets, TLC

\* ------------------------------------------------------------------ bounds
MaxSessions == 2      \* calls of startRecording in one behaviour
MaxChunks == 1        \* timeslice dataavailable events per capture handle
MaxChunkLen == 1      \* bytes in one emitted chunk
MaxClock == 1         \* values of Date.now() beyond the initial one
MaxFrames == 2        \* frames of a waveform handed to the encoder
SubmitSessions == 1   \* calls of startRecording before a submission

\* ------------------------------------------------------- program constants
maxSize == 10 * 1024 * 1024
MAX_SIZE == 10 * 1024 * 1024
HeaderBytes == 44
RequestedSampleRate == 44100

\* null refs to numbered objects are 0; a nullable value is <<>> or <<v>>.
None == <<>>
Some(v) == <<v>>
\* NaN is an integer that no sample, clamped or not, ever takes.
NaN == 0 - 999999

\* ------------------------------------------------------------------ helpers
RECURSIVE Concat(_)
Concat(chunks) ==
    IF chunks = <<>> THEN <<>> ELSE Head(chunks) \o Concat(Tail(chunks))

Min(a, b) == IF a < b THEN a ELSE b
Max(a, b) == IF a > b THEN a ELSE b

\* ---------------------------------------------------------------- DataView
\* Every write of the encoder passes littleEndian = true.
Zeros(n) == [i \in 1..n |-> 0]

setUint8(view, off, v) == [view EXCEPT ![off + 1] = v % 256]

setUint16(view, off, v) ==
    LET w == v % 65536
    IN  [view EXCEPT ![off + 1] = w % 256, ![off + 2] = w \div 256]

\* v stays below 2^31 within the bounds, so the four bytes are exact.
setUint32(view, off, v) ==
    [view EXCEPT ![off + 1] = v % 256,
                 ![off + 2] = (v \div 256) % 256,
                 ![off + 3] = (v \div 65536) % 256,
                 ![off + 4] = (v \div 16777216) % 256]

\* ToInt16 of a number: NaN becomes 0, the fraction is dropped toward zero,
\* the integer is taken modulo 2^16 (two's complement on the wire).
TruncDiv(a, b) == IF a >= 0 THEN a \div b ELSE -((-a) \div b)

setInt16(view, off, x) ==
    IF x = NaN THEN setUint16(view, off, 0) ELSE setUint16(view, off, x)

getUint16(bytes, off) == bytes[off + 1] + 256 * bytes[off + 2]

getUint32(bytes, off) ==
    bytes[off + 1] + 256 * bytes[off + 2] + 65536 * bytes[off + 3]
        + 16777216 * bytes[off + 4]

getInt16(bytes, off) ==
    LET u == getUint16(bytes, off) IN IF u >= 32768 THEN u - 65536 ELSE u

charCodeAt(c) ==
    CASE c = "R" -> 82  [] c = "I" -> 73  [] c = "F" -> 70
      [] c = "W" -> 87  [] c = "A" -> 65  [] c = "V" -> 86  [] c = "E" -> 69
      [] c = "f" -> 102 [] c = "m" -> 109 [] c = "t" -> 116 [] c = " " -> 32
      [] c = "d" -> 100 [] c = "a" -> 97

RECURSIVE writeStringFrom(_, _, _, _)
writeStringFrom(view, offset, string, i) ==
    IF i > Len(string) THEN view
    ELSE writeStringFrom(setUint8(view, offset + i - 1, charCodeAt(string[i])),
                         offset, string, i + 1)

writeString(view, offset, string) == writeStringFrom(view, offset, string, 1)

\* ----------------------------------------------------------- WaveformEncoder
\* An AudioBuffer: [length, numberOfChannels, sampleRate, channels], where
\* channels[c + 1] is getChannelData(c), samples in units of 1 / SampleUnit.
SampleUnit == 10 * 100

\* channelData[i]: undefined beyond the end of the Float32Array, and
\* Math.min / Math.max / * of undefined give NaN.
channelSample(buffer, channel, i) ==
    LET channelData == buffer.channels[channel + 1]
    IN  IF i + 1 <= Len(channelData) THEN channelData[i + 1] ELSE NaN

\* clampSample without the clamp: the sample goes to setInt16 as it is.
clampSample_unclamped(sample) == sample

clampSample(sample) ==
    IF sample = NaN THEN NaN ELSE Max(-SampleUnit, Min(SampleUnit, sample))

\* sample * 0x7FFF, as the integer setInt16 keeps of it.
scaleSample(sample) ==
    IF sample = NaN THEN NaN ELSE TruncDiv(sample * 32767, SampleUnit)

\* wavHeader with the byte rate of a mono stream whatever the channel count.
wavHeader_monoByteRate(view, length, numberOfChannels, sampleRate) ==
    LET v1  == writeString(view, 0, <<"R", "I", "F", "F">>)
        v2  == setUint32(v1, 4, 36 + length * numberOfChannels * 2)
        v3  == writeString(v2, 8, <<"W", "A", "V", "E">>)
        v4  == writeString(v3, 12, <<"f", "m", "t", " ">>)
        v5  == setUint32(v4, 16, 16)
        v6  == setUint16(v5, 20, 1)
        v7  == setUint16(v6, 22, numberOfChannels)
        v8  == setUint32(v7, 24, sampleRate)
        v9  == setUint32(v8, 28, sampleRate * 2)
        v10 == setUint16(v9, 32, numberOfChannels * 2)
        v11 == setUint16(v10, 34, 16)
        v12 == writeString(v11, 36, <<"d", "a", "t", "a">>)
    IN  setUint32(v12, 40, length * numberOfChannels * 2)

wavHeader(view, length, numberOfChannels, sampleRate) ==
    LET v1  == writeString(view, 0, <<"R", "I", "F", "F">>)
        v2  == setUint32(v1, 4, 36 + length * numberOfChannels * 2)
        v3  == writeString(v2, 8, <<"W", "A", "V", "E">>)
        v4  == writeString(v3, 12, <<"f", "m", "t", " ">>)
        v5  == setUint32(v4, 16, 16)
        v6  == setUint16(v5, 20, 1)
        v7  == setUint16(v6, 22, numberOfChannels)
        v8  == setUint32(v7, 24, sampleRate)
        v9  == setUint32(v8, 28, sampleRate * numberOfChannels * 2)
        v10 == setUint16(v9, 32, numberOfChannels * 2)
        v11 == setUint16(v10, 34, 16)
        v12 == writeString(v11, 36, <<"d", "a", "t", "a">>)
    IN  setUint32(v12, 40, length * numberOfChannels * 2)

\* wavSamples writing channel after channel instead of frame after frame.
RECURSIVE wavSamples_planar(_, _, _, _)
wavSamples_planar(view, buffer, numberOfChannels, k) ==
    IF numberOfChannels = 0 \/ k >= buffer.length * numberOfChannels THEN view
    ELSE LET i       == k % buffer.length
             channel == k \div buffer.length
             sample  == clampSample(channelSample(buffer, channel, i))
         IN  wavSamples_planar(
                 setInt16(view, HeaderBytes + 2 * k, scaleSample(sample)),
                 buffer, numberOfChannels, k + 1)

\* The two nested loops (i over frames, channel inside), k counting the
\* samples already written: offset = 44 + 2 * k.
RECURSIVE wavSamples(_, _, _, _)
wavSamples(view, buffer, numberOfChannels, k) ==
    IF numberOfChannels = 0 \/ k >= buffer.length * numberOfChannels THEN view
    ELSE LET i       == k \div numberOfChannels
             channel == k % numberOfChannels
             sample  == clampSample(channelSample(buffer, channel, i))
         IN  wavSamples(setInt16(view, HeaderBytes + 2 * k, scaleSample(sample)),
                        buffer, numberOfChannels, k + 1)

wavChannels(buffer) == Min(buffer.numberOfChannels, 2)

audioBufferToWav(buffer) ==
    LET length           == buffer.length
        numberOfChannels == wavChannels(buffer)
        sampleRate       == buffer.sampleRate
        arrayBuffer      == Zeros(HeaderBytes + length * numberOfChannels * 2)
    IN  wavSamples(wavHeader(arrayBuffer, length, numberOfChannels, sampleRate),
                   buffer, numberOfChannels, 0)

\* How a call of audioBufferToWav ends: it has no check and no throw, and no
\* operation in it throws for a short channel (an index past the end of a
\* Float32Array reads undefined, Math.min/max give NaN, setInt16 writes 0).
audioBufferToWavOutcome(buffer) == [threw |-> FALSE, value |-> audioBufferToWav(buffer)]

\* ----------------------------------------------------------- ingest validators
\* A File is [size, type, name]; an uploaded name is a sequence of characters.
UpperCase == <<"A", "B", "C", "D", "E", "F", "G", "H", "I", "J", "K", "L", "M",
               "N", "O", "P", "Q", "R", "S", "T", "U", "V", "W", "X", "Y", "Z">>
LowerCase == <<"a", "b", "c", "d", "e", "f", "g", "h", "i", "j", "k", "l", "m",
               "n", "o", "p", "q", "r", "s", "t", "u", "v", "w", "x", "y", "z">>

toLowerChar(c) ==
    IF \E i \in DOMAIN UpperCase : UpperCase[i] = c
    THEN LowerCase[CHOOSE i \in DOMAIN UpperCase : UpperCase[i] = c]
    ELSE c

toLowerCase(name) == [i \in DOMAIN name |-> toLowerChar(name[i])]

endsWith(name, suffix) ==
    /\ Len(name) >= Len(suffix)
    /\ SubSeq(name, Len(name) - Len(suffix) + 1, Len(name)) = suffix

\* services/api validateAudioFile
allowedTypes ==
    {"audio/wav", "audio/mpeg", "audio/mp3", "audio/flac", "audio/ogg",
     "audio/x-m4a", "audio/mp4", "audio/webm"}

\* validateAudioFile with the size limit taken as exclusive.
validateAudioFile_exclusiveLimit(file) ==
    IF file.size >= maxSize
    THEN [valid |-> FALSE, error |-> "File size too large. Maximum 10MB allowed."]
    ELSE IF file.size = 0
    THEN [valid |-> FALSE, error |-> "File is empty."]
    ELSE IF file.type # "" /\ file.type \notin allowedTypes
    THEN [valid |-> FALSE, error |-> "Unsupported file type"]
    ELSE [valid |-> TRUE, error |-> ""]

validateAudioFile(file) ==
    IF file.size > maxSize
    THEN [valid |-> FALSE, error |-> "File size too large. Maximum 10MB allowed."]
    ELSE IF file.size = 0
    THEN [valid |-> FALSE, error |-> "File is empty."]
    ELSE IF file.type # "" /\ file.type \notin allowedTypes
    THEN [valid |-> FALSE, error |-> "Unsupported file type"]
    ELSE [valid |-> TRUE, error |-> ""]

\* FileUploader validateFile
ALLOWED_TYPES ==
    {"audio/wav", "audio/mp3", "audio/mpeg", "audio/flac", "audio/ogg", "audio/m4a"}

\* /\.(wav|mp3|flac|ogg|m4a)$/
UploadExtensions ==
    {<<".", "w", "a", "v">>, <<".", "m", "p", "3">>, <<".", "f", "l", "a", "c">>,
     <<".", "o", "g", "g">>, <<".", "m", "4", "a">>}

matchesExtension(name) == \E e \in UploadExtensions : endsWith(name, e)

validateFile(file) ==
    IF file.type \notin ALLOWED_TYPES /\ ~matchesExtension(toLowerCase(file.name))
    THEN FALSE
    ELSE IF file.size > MAX_SIZE
    THEN FALSE
    ELSE TRUE

\* ------------------------------------------------------------------ analyzeAudio
\* What axios.post ends with: a response [status, data], or a rejection with
\* no response. data is a string, or an object [success, detail, message,
\* data] whose absent fields are None.
ApiError(message, statusCode) ==
    [kind |-> "ApiError", message |-> message, statusCode |-> statusCode]

\* let message = 'Analysis failed'; if string ... else if detail ... else if message
errorMessage(errorData) ==
    IF errorData.isString THEN errorData.text
    ELSE IF errorData.detail # None THEN errorData.detail[1]
    ELSE IF errorData.message # None THEN errorData.message[1]
    ELSE "Analysis failed"

\* validateStatus: (status) => status < 500
validateStatus(status) == status < 500

analyzeAudio(reply) ==
    IF reply.kind = "timeout"
    THEN ApiError("Request timeout. Please try again with a shorter audio file.", None)
    ELSE IF reply.kind = "noResponse"
    THEN ApiError("Network error. Please check your connection and try again.", None)
    ELSE IF reply.kind = "exception"
    THEN ApiError("An unexpected error occurred during analysis.", None)
    ELSE IF ~validateStatus(reply.status)
    THEN ApiError(errorMessage(reply.data), Some(reply.status))
    ELSE IF reply.status = 200 /\ ~reply.data.isString /\ reply.data.success
    THEN IF reply.data.data = None
         THEN ApiError("An unexpected error occurred during analysis.", None)
         ELSE [kind |-> "returned", message |-> "", statusCode |-> None]
    ELSE IF reply.status >= 400
    THEN ApiError(errorMessage(reply.data), Some(reply.status))
    ELSE ApiError("Unexpected response format", Some(reply.status))

\* ------------------------------------------------------------------- state
VARIABLES
    \* useAudioRecorder, React state
    recording,          \* None or Some([blob, url, duration])
    isRecording,
    duration,
    error,              \* None or Some(message)
    \* useAudioRecorder, refs
    mediaRecorderRef,   \* 0 or the capture handle (numbered by its call)
    streamRef,          \* 0 or the input stream (numbered by its call)
    chunksRef,          \* sequence of chunks
    intervalRef,        \* 0 or the interval handle
    startTimeRef,
    \* the browser
    calls,              \* one record per call of startRecording
    timers,             \* interval handles that still fire
    objectUrls,         \* object URLs created and not revoked
    now,                \* Date.now(), in units of the 100 ms timeslice
    supported,          \* the types MediaRecorder.isTypeSupported accepts
    \* Index
    isAnalyzing,
    results,            \* None or Some(data)
    currentFilename,
    request,            \* None or Some(arguments of the analyzeAudio call in flight)
    \* FileUploader
    selectedFile,       \* None or Some(file)
    \* a function under test and what it returned
    arg,
    ret,
    \* the component that uses the hook is mounted
    mounted,
    \* clearRecording has returned and startRecording was not called since
    cleared

hookVars == <<recording, isRecording, duration, error>>
refVars == <<mediaRecorderRef, streamRef, chunksRef, intervalRef, startTimeRef>>
browserVars == <<calls, timers, objectUrls, now, supported>>
pageVars == <<isAnalyzing, results, currentFilename, request>>
probeVars == <<arg, ret>>
vars == <<hookVars, refVars, browserVars, pageVars, selectedFile, probeVars, mounted,
         cleared>>

Sessions == 1..MaxSessions

\* ------------------------------------------------------- capture MIME types
\* The order of the isTypeSupported probes in startRecording.
MimePreference ==
    <<"audio/wav", "audio/webm;codecs=opus", "audio/webm", "audio/ogg;codecs=opus">>

MimeTypes == {MimePreference[i] : i \in DOMAIN MimePreference}

\* String.prototype.includes on the types the recorder handles.
includes(string, needle) ==
    CASE needle = "webm" -> string \in {"audio/webm;codecs=opus", "audio/webm"}
      [] needle = "ogg"  -> string \in {"audio/ogg;codecs=opus", "audio/ogg"}
      [] needle = "wav"  -> string \in {"audio/wav"}

\* selectMimeType with the two webm probes in the other order.
selectMimeType_webmFirst(isTypeSupported) ==
    IF "audio/wav" \in isTypeSupported THEN "audio/wav"
    ELSE IF "audio/webm" \in isTypeSupported THEN "audio/webm"
    ELSE IF "audio/webm;codecs=opus" \in isTypeSupported THEN "audio/webm;codecs=opus"
    ELSE IF "audio/ogg;codecs=opus" \in isTypeSupported THEN "audio/ogg;codecs=opus"
    ELSE "audio/webm;codecs=opus"

\* let mimeType = 'audio/webm;codecs=opus'; if ... else if ...
selectMimeType(isTypeSupported) ==
    IF "audio/wav" \in isTypeSupported THEN "audio/wav"
    ELSE IF "audio/webm;codecs=opus" \in isTypeSupported THEN "audio/webm;codecs=opus"
    ELSE IF "audio/webm" \in isTypeSupported THEN "audio/webm"
    ELSE IF "audio/ogg;codecs=opus" \in isTypeSupported THEN "audio/ogg;codecs=opus"
    ELSE "audio/webm;codecs=opus"

\* needsConversion that sends every capture through the transcoder.
needsConversion_always(mimeType) == TRUE

needsConversion(mimeType) == includes(mimeType, "webm") \/ includes(mimeType, "ogg")

\* ------------------------------------------------------------ StreamTranscoder
\* convertWebMToWAV whose catch returns an empty blob.
convertWebMToWAV_emptyOnFailure(webmBlob, decoded) ==
    IF decoded = None THEN <<>> ELSE audioBufferToWav(decoded[1])

\* decodeAudioData is the browser's: it rejects (None) or resolves with an
\* AudioBuffer. The catch returns the blob it was given.
convertWebMToWAV(webmBlob, decoded) ==
    IF decoded = None THEN webmBlob ELSE audioBufferToWav(decoded[1])

\* What decodeAudioData may answer for a buffer: an empty buffer never decodes.
DecodedBuffers ==
    {[length |-> 1, numberOfChannels |-> 1, sampleRate |-> RequestedSampleRate,
      channels |-> <<<<SampleUnit \div 2>>>>]}

decodeAudioData(arrayBuffer) ==
    IF arrayBuffer = <<>> THEN {None}
    ELSE {None} \cup {Some(b) : b \in DecodedBuffers}

\* `recording_${Date.now()}.wav` : `recording_${Date.now()}.webm`
recordingFilename(blobType, t) ==
    IF includes(blobType, "wav")
    THEN [stem |-> "recording_", ms |-> t, ext |-> "wav"]
    ELSE [stem |-> "recording_", ms |-> t, ext |-> "webm"]

\* ------------------------------------------------------------ capture handle
\* The k-th byte a capture handle emits names the handle and k.
ChunkData(s, from, n) == [i \in 1..n |-> 16 * s + from + i]

\* startedAt and stoppedAt are Date.now() when the capture started and when
\* stop() was called on it; originalType is the type of originalBlob.
IdleCall ==
    [pc |-> "idle", track |-> "none", mimeType |-> "", emitted |-> <<>>,
     events |-> 0, originalBlob |-> <<>>, finalDuration |-> 0, outcome |-> "none",
     startedAt |-> 0, stoppedAt |-> 0, originalType |-> ""]

\* event.data.size > 0 ? push : skip
pushChunk(chunks, data) == IF Len(data) > 0 THEN Append(chunks, data) ELSE chunks

\* ------------------------------------------------------------ useAudioRecorder
\* startRecording up to the await of getUserMedia.
startRecording(s) ==
    /\ calls[s].pc = "idle"
    /\ \A r \in Sessions : r < s => calls[r].pc # "idle"
    /\ error' = None
    /\ calls' = [calls EXCEPT ![s].pc = "requesting"]
    /\ cleared' = FALSE
    /\ UNCHANGED <<recording, isRecording, duration, refVars, timers, objectUrls,
                   now, supported, pageVars, selectedFile, probeVars, mounted>>

\* getUserMedia resolved: the rest of the try block. new MediaRecorder throws
\* NotSupportedError for a type the browser does not record.
startRecordingGranted(s) ==
    /\ calls[s].pc = "requesting"
    /\ streamRef' = s
    /\ chunksRef' = <<>>
    /\ LET mimeType == selectMimeType(supported)
           stream   == [calls EXCEPT ![s].track = "live", ![s].mimeType = mimeType]
       IN  IF mimeType \in supported
           THEN /\ mediaRecorderRef' = s
                /\ startTimeRef' = now
                /\ duration' = 0
                /\ isRecording' = TRUE
                /\ calls' = [stream EXCEPT ![s].pc = "recording",
                                           ![s].startedAt = now]
                /\ intervalRef' = s
                /\ timers' = timers \cup {s}
                /\ UNCHANGED error
           ELSE /\ error' = Some("NotSupportedError")
                /\ calls' = [stream EXCEPT ![s].pc = "failed"]
                /\ UNCHANGED <<mediaRecorderRef, startTimeRef, duration, isRecording,
                               intervalRef, timers>>
    /\ UNCHANGED <<recording, objectUrls, now, supported, pageVars, selectedFile,
                   probeVars, mounted, cleared>>

\* getUserMedia rejected: the catch block.
startRecordingRejected(s, reason) ==
    /\ calls[s].pc = "requesting"
    /\ error' = Some(reason)
    /\ calls' = [calls EXCEPT ![s].pc = "failed"]
    /\ UNCHANGED <<recording, isRecording, duration, refVars, timers, objectUrls,
                   now, supported, pageVars, selectedFile, probeVars, mounted,
                   cleared>>

\* A timeslice elapsed on capture handle s.
ondataavailable(s, n) ==
    /\ calls[s].pc = "recording"
    /\ calls[s].events < MaxChunks
    /\ LET data == ChunkData(s, Len(calls[s].emitted), n)
       IN  /\ chunksRef' = pushChunk(chunksRef, data)
           /\ calls' = [calls EXCEPT ![s].emitted = @ \o data, ![s].events = @ + 1]
    /\ UNCHANGED <<hookVars, mediaRecorderRef, streamRef, intervalRef, startTimeRef,
                   timers, objectUrls, now, supported, pageVars, selectedFile,
                   probeVars, mounted, cleared>>

\* MediaRecorder.stop() on an inactive handle throws before anything else runs.
stopRecording ==
    /\ mediaRecorderRef # 0 /\ isRecording
    /\ IF calls[mediaRecorderRef].pc = "recording"
       THEN /\ calls' = [calls EXCEPT ![mediaRecorderRef].pc = "stopping",
                                      ![mediaRecorderRef].stoppedAt = now]
            /\ isRecording' = FALSE
            /\ timers' = IF intervalRef # 0 THEN timers \ {intervalRef} ELSE timers
       ELSE UNCHANGED <<calls, isRecording, timers>>
    /\ UNCHANGED <<recording, duration, error, refVars, objectUrls, now, supported,
                   pageVars, selectedFile, probeVars, mounted, cleared>>

\* onstop from 'Create new File object' to its end.
finishRecording(s, processedBlob, blobType, outcome, base) ==
    LET filename == recordingFilename(blobType, now)
        file     == [bytes |-> processedBlob, name |-> filename, type |-> blobType]
        done     == [base EXCEPT ![s].pc = "done", ![s].outcome = outcome]
    IN  /\ recording' = Some([blob |-> file, url |-> s,
                              duration |-> base[s].finalDuration])
        /\ objectUrls' = objectUrls \cup {s}
        /\ calls' = IF streamRef # 0
                    THEN [done EXCEPT ![streamRef].track = "ended"]
                    ELSE done
        /\ streamRef' = 0

\* The task stop() queued: the last dataavailable, then onstop up to the await
\* of convertWebMToWAV, or to its end when nothing is awaited.
onstop(s, n) ==
    /\ calls[s].pc = "stopping"
    /\ LET data          == ChunkData(s, Len(calls[s].emitted), n)
           chunks        == pushChunk(chunksRef, data)
           originalBlob  == Concat(chunks)
           finalDuration == now - startTimeRef
           mimeType      == calls[s].mimeType
           base          == [calls EXCEPT ![s].emitted = @ \o data,
                                          ![s].originalBlob = originalBlob,
                                          ![s].originalType = mimeType,
                                          ![s].finalDuration = finalDuration]
       IN  /\ chunksRef' = chunks
           /\ IF needsConversion(mimeType)
              THEN /\ calls' = [base EXCEPT ![s].pc = "converting"]
                   /\ UNCHANGED <<recording, objectUrls, streamRef>>
              ELSE finishRecording(s, originalBlob, mimeType, "passthrough", base)
    /\ UNCHANGED <<isRecording, duration, error, mediaRecorderRef, intervalRef,
                   startTimeRef, timers, now, supported, pageVars, selectedFile,
                   probeVars, mounted, cleared>>

\* convertWebMToWAV settled: the rest of onstop.
onstopConverted(s, decoded) ==
    /\ calls[s].pc = "converting"
    /\ decoded \in decodeAudioData(calls[s].originalBlob)
    /\ finishRecording(s, convertWebMToWAV(calls[s].originalBlob, decoded),
                       "audio/wav",
                       IF decoded = None THEN "fallback" ELSE "converted", calls)
    /\ UNCHANGED <<isRecording, duration, error, mediaRecorderRef, chunksRef,
                   intervalRef, startTimeRef, timers, now, supported, pageVars,
                   selectedFile, probeVars, mounted, cleared>>

\* clearRecording that drops the recording without revoking its URL.
\* decodeAudioData never settles: convertWebMToWAV awaits it with no timeout,
\* so neither its try nor its catch resumes and onstop stays suspended.
decodeStalls(s) ==
    /\ calls[s].pc = "converting"
    /\ calls' = [calls EXCEPT ![s].pc = "stalled"]
    /\ UNCHANGED <<hookVars, refVars, timers, objectUrls, now, supported, pageVars,
                   selectedFile, probeVars, mounted, cleared>>

\* clearRecording that drops the recording without revoking its URL.
clearRecording_keepUrl ==
    /\ recording' = None
    /\ duration' = 0
    /\ error' = None
    /\ cleared' = TRUE
    /\ UNCHANGED <<isRecording, refVars, calls, timers, objectUrls, now, supported,
                   pageVars, selectedFile, probeVars, mounted>>

clearRecording ==
    /\ objectUrls' = IF recording # None THEN objectUrls \ {recording[1].url}
                     ELSE objectUrls
    /\ recording' = None
    /\ duration' = 0
    /\ error' = None
    /\ cleared' = TRUE
    /\ UNCHANGED <<isRecording, refVars, calls, timers, now, supported, pageVars,
                   selectedFile, probeVars, mounted>>

\* The component unmounts. 'Cleanup on unmount' is useState(() => cleanup): the
\* initializer runs at mount and stores the cleanup function as a state value;
\* nothing calls it, and no effect is registered, so unmounting runs no code
\* of the hook.
unmount ==
    /\ mounted
    /\ mounted' = FALSE
    /\ UNCHANGED <<hookVars, refVars, browserVars, pageVars, selectedFile, probeVars,
                   cleared>>

\* The setInterval callback of handle t.
intervalTick(t) ==
    /\ t \in timers
    /\ duration' = now - startTimeRef
    /\ UNCHANGED <<recording, isRecording, error, refVars, browserVars, pageVars,
                   selectedFile, probeVars, mounted, cleared>>

\* Date.now() moves on.
clockTick ==
    /\ now < MaxClock
    /\ now' = now + 1
    /\ UNCHANGED <<hookVars, refVars, calls, timers, objectUrls, supported, pageVars,
                   selectedFile, probeVars, mounted, cleared>>

\* ----------------------------------------------------------------------- Index
\* handleAudioSubmission up to the await of analyzeAudio.
handleAudioSubmission(audioFile, filename) ==
    /\ isAnalyzing' = TRUE
    /\ currentFilename' = Some(filename)
    /\ request' = Some([audioFile |-> audioFile, filename |-> filename])
    /\ UNCHANGED results

\* analyzeAudio returned: setResults, then the finally block.
analysisReturned ==
    /\ request # None
    /\ results' = Some("analysisData")
    /\ isAnalyzing' = FALSE
    /\ request' = None
    /\ UNCHANGED <<currentFilename, hookVars, refVars, browserVars, selectedFile,
                   probeVars, mounted, cleared>>

\* analysisFailed without the finally block.
analysisFailed_noFinally ==
    /\ request # None
    /\ request' = None
    /\ UNCHANGED <<isAnalyzing, results, currentFilename, hookVars, refVars,
                   browserVars, selectedFile, probeVars, mounted, cleared>>

\* analyzeAudio threw: the catch, then the finally block.
analysisFailed ==
    /\ request # None
    /\ isAnalyzing' = FALSE
    /\ request' = None
    /\ UNCHANGED <<results, currentFilename, hookVars, refVars, browserVars,
                   selectedFile, probeVars, mounted, cleared>>

handleReset ==
    /\ results # None
    /\ results' = None
    /\ currentFilename' = None
    /\ isAnalyzing' = FALSE
    /\ UNCHANGED <<request, hookVars, refVars, browserVars, selectedFile, probeVars,
                   mounted, cleared>>

\* --------------------------------------------------------------- AudioRecorder
\* 'Use This Recording': rendered while a recording is held, disabled while
\* analyzing, gone once results are shown.
handleUseRecording ==
    /\ recording # None
    /\ ~isAnalyzing /\ results = None
    /\ handleAudioSubmission(
           [size |-> Len(recording[1].blob.bytes), type |-> recording[1].blob.type,
            name |-> recording[1].blob.name],
           [stem |-> "recording_", ms |-> now, ext |-> "webm"])
    /\ UNCHANGED <<hookVars, refVars, browserVars, selectedFile, probeVars, mounted,
                   cleared>>

\* ---------------------------------------------------------------- FileUploader
handleFileSelect(file) ==
    /\ ~isAnalyzing /\ results = None
    /\ validateFile(file)
    /\ selectedFile' = Some(file)
    /\ UNCHANGED <<hookVars, refVars, browserVars, pageVars, probeVars, mounted, cleared>>

handleUploadClick ==
    /\ selectedFile # None
    /\ ~isAnalyzing /\ results = None
    /\ handleAudioSubmission(selectedFile[1], selectedFile[1].name)
    /\ UNCHANGED <<hookVars, refVars, browserVars, selectedFile, probeVars, mounted,
                   cleared>>

clearFile ==
    /\ selectedFile # None
    /\ results = None
    /\ selectedFile' = None
    /\ UNCHANGED <<hookVars, refVars, browserVars, pageVars, probeVars, mounted, cleared>>

\* ---------------------------------------------------------------------- inputs
FileNames ==
    {<<"a", ".", "w", "a", "v">>, <<"a", ".", "W", "A", "V">>,
     <<"a", ".", "w", "e", "b", "m">>, <<"a", ".", "t", "x", "t">>,
     <<"w", "a", "v">>}

FileTypes ==
    {"", "audio/wav", "audio/webm", "audio/m4a", "audio/x-m4a", "video/mp4",
     "AUDIO/WAV", "Audio/Webm"}

FileSizes == {0, 1, maxSize - 1, maxSize, maxSize + 1}

Files == [size : FileSizes, type : FileTypes, name : FileNames]

Samples == {0 - 2 * SampleUnit, 0 - (SampleUnit \div 3), 0, SampleUnit, 2 * SampleUnit}

SampleRates == {8000, RequestedSampleRate}

\* Decoded waveforms: every channel holds `length` samples. A buffer of three
\* channels carries a third one the encoder never reads.
Waveforms ==
    UNION {
        UNION {
            {[length |-> n, numberOfChannels |-> c, sampleRate |-> r,
              channels |-> ch \o (IF c < 3 THEN <<>> ELSE <<[i \in 1..n |-> 0]>>)]
                : ch \in [1..Min(c, 2) -> [1..n -> Samples]], r \in SampleRates}
            : c \in 1..3}
        : n \in 0..MaxFrames}

\* Waveforms that break the encoder's precondition: one or two channels, at
\* least one of them shorter than the declared length.
ShortChannels(n) == UNION {[1..l -> Samples] : l \in 0..n}

MalformedWaveforms ==
    UNION {
        UNION {
            {[length |-> n, numberOfChannels |-> c, sampleRate |-> r, channels |-> ch]
                : ch \in {x \in [1..c -> ShortChannels(n)] :
                              \E k \in 1..c : Len(x[k]) < n},
                  r \in SampleRates}
            : c \in 1..2}
        : n \in 1..MaxFrames}

\* Replies of the analysis service and failures of the request.
ResponseBodies ==
    {[isString |-> TRUE, text |-> "plain body"]}
        \cup [isString : {FALSE}, success : BOOLEAN,
              detail : {None, Some("server detail")},
              message : {None, Some("server message")},
              data : {None, Some("analysisData")}]

ApiReplies ==
    [kind : {"response"}, status : {200, 201, 400, 404, 422, 500, 503},
     data : ResponseBodies]
        \cup {[kind |-> k] : k \in {"timeout", "noResponse", "exception"}}

\* What isTypeSupported may answer: one browser for each type the probes can
\* select, and one that records none of them.
SupportProfiles ==
    {{}, {"audio/wav"}, {"audio/webm;codecs=opus", "audio/webm"}, {"audio/webm"},
     {"audio/ogg;codecs=opus"}}

\* ---------------------------------------------------------------- specifications
InitHook ==
    /\ recording = None
    /\ isRecording = FALSE
    /\ duration = 0
    /\ error = None
    /\ mediaRecorderRef = 0
    /\ streamRef = 0
    /\ chunksRef = <<>>
    /\ intervalRef = 0
    /\ startTimeRef = 0
    /\ calls = [s \in Sessions |-> IdleCall]
    /\ timers = {}
    /\ objectUrls = {}
    /\ now = 0
    /\ mounted = TRUE
    /\ cleared = FALSE

InitPage ==
    /\ isAnalyzing = FALSE
    /\ results = None
    /\ currentFilename = None
    /\ request = None
    /\ selectedFile = None

\* The recording controller and the browser under it.
Init ==
    /\ InitHook
    /\ InitPage
    /\ supported \in SupportProfiles
    /\ arg = None
    /\ ret = None

Next ==
    \/ \E s \in Sessions : startRecording(s)
    \/ \E s \in Sessions : startRecordingGranted(s)
    \/ \E s \in Sessions, reason \in {"NotAllowedError", "NotFoundError"} :
            startRecordingRejected(s, reason)
    \/ \E s \in Sessions, n \in 0..MaxChunkLen : ondataavailable(s, n)
    \/ stopRecording
    \/ \E s \in Sessions, n \in 0..MaxChunkLen : onstop(s, n)
    \/ \E s \in Sessions, decoded \in {None} \cup {Some(b) : b \in DecodedBuffers} :
            onstopConverted(s, decoded)
    \/ clearRecording
    \/ \E t \in Sessions : intervalTick(t)
    \/ clockTick

Spec == Init /\ [][Next]_vars

\* One capture after another, the recorder component and the page.
NextSubmit ==
    \/ \E s \in 1..SubmitSessions : startRecording(s)
    \/ \E s \in Sessions : startRecordingGranted(s)
    \/ \E s \in Sessions, reason \in {"NotAllowedError", "NotFoundError"} :
            startRecordingRejected(s, reason)
    \/ \E s \in Sessions, n \in 0..MaxChunkLen : ondataavailable(s, n)
    \/ stopRecording
    \/ \E s \in Sessions, n \in 0..MaxChunkLen : onstop(s, n)
    \/ \E s \in Sessions, decoded \in {None} \cup {Some(b) : b \in DecodedBuffers} :
            onstopConverted(s, decoded)
    \/ clearRecording
    \/ \E t \in Sessions : intervalTick(t)
    \/ clockTick
    \/ handleUseRecording
    \/ analysisReturned
    \/ analysisFailed
    \/ handleReset

SpecSubmit == Init /\ [][NextSubmit]_vars

\* One capture and its finalization, with the scheduling of the browser: a
\* queued stop task runs, and a decode that has not stalled settles.
NextFinalize ==
    \/ \E s \in 1..SubmitSessions : startRecording(s)
    \/ \E s \in Sessions : startRecordingGranted(s)
    \/ \E s \in Sessions, reason \in {"NotAllowedError", "NotFoundError"} :
            startRecordingRejected(s, reason)
    \/ \E s \in Sessions, n \in 0..MaxChunkLen : ondataavailable(s, n)
    \/ stopRecording
    \/ \E s \in Sessions, n \in 0..MaxChunkLen : onstop(s, n)
    \/ \E s \in Sessions, decoded \in {None} \cup {Some(b) : b \in DecodedBuffers} :
            onstopConverted(s, decoded)
    \/ \E s \in Sessions : decodeStalls(s)
    \/ clearRecording
    \/ \E t \in Sessions : intervalTick(t)
    \/ clockTick

FairFinalize ==
    \A s \in Sessions :
        /\ WF_vars(\E n \in 0..MaxChunkLen : onstop(s, n))
        /\ WF_vars(\E decoded \in {None} \cup {Some(b) : b \in DecodedBuffers} :
                      onstopConverted(s, decoded))

SpecFinalize == Init /\ [][NextFinalize]_vars /\ FairFinalize

\* One capture and the disposal of the controller: the operations need the
\* mounted component, the callbacks registered with the browser do not.
NextUnmount ==
    \/ mounted /\ \E s \in 1..SubmitSessions : startRecording(s)
    \/ \E s \in Sessions : startRecordingGranted(s)
    \/ \E s \in Sessions, reason \in {"NotAllowedError", "NotFoundError"} :
            startRecordingRejected(s, reason)
    \/ \E s \in Sessions, n \in 0..MaxChunkLen : ondataavailable(s, n)
    \/ mounted /\ stopRecording
    \/ \E s \in Sessions, n \in 0..MaxChunkLen : onstop(s, n)
    \/ \E s \in Sessions, decoded \in {None} \cup {Some(b) : b \in DecodedBuffers} :
            onstopConverted(s, decoded)
    \/ mounted /\ clearRecording
    \/ \E t \in Sessions : intervalTick(t)
    \/ clockTick
    \/ unmount

SpecUnmount == Init /\ [][NextUnmount]_vars

\* The uploader and the page.
InitUpload ==
    /\ InitHook
    /\ InitPage
    /\ supported = {}
    /\ arg = None
    /\ ret = None

NextUpload ==
    \/ \E file \in Files : handleFileSelect(file)
    \/ handleUploadClick
    \/ clearFile
    \/ analysisReturned
    \/ analysisFailed
    \/ handleReset

SpecUpload == InitUpload /\ [][NextUpload]_vars

\* validateAudioFile applied to a file.
callValidateAudioFile ==
    /\ ret = None
    /\ ret' = Some(validateAudioFile(arg))
    /\ UNCHANGED <<arg, hookVars, refVars, browserVars, pageVars, selectedFile, mounted,
                   cleared>>

InitValidate ==
    /\ InitHook
    /\ InitPage
    /\ supported = {}
    /\ arg \in Files
    /\ ret = None

SpecValidate == InitValidate /\ [][callValidateAudioFile]_vars

\* audioBufferToWav applied to a decoded waveform.
callAudioBufferToWav ==
    /\ ret = None
    /\ ret' = Some(audioBufferToWav(arg))
    /\ UNCHANGED <<arg, hookVars, refVars, browserVars, pageVars, selectedFile, mounted,
                   cleared>>

InitEncode ==
    /\ InitHook
    /\ InitPage
    /\ supported = {}
    /\ arg \in Waveforms
    /\ ret = None

SpecEncode == InitEncode /\ [][callAudioBufferToWav]_vars

\* audioBufferToWav applied to a waveform with a short channel.
callAudioBufferToWavMalformed ==
    /\ ret = None
    /\ ret' = Some(audioBufferToWavOutcome(arg))
    /\ UNCHANGED <<arg, hookVars, refVars, browserVars, pageVars, selectedFile, mounted,
                   cleared>>

InitEncodeMalformed ==
    /\ InitHook
    /\ InitPage
    /\ supported = {}
    /\ arg \in MalformedWaveforms
    /\ ret = None

SpecEncodeMalformed == InitEncodeMalformed /\ [][callAudioBufferToWavMalformed]_vars

\* analyzeAudio applied to what the request ended with.
callAnalyzeAudio ==
    /\ ret = None
    /\ ret' = Some(analyzeAudio(arg))
    /\ UNCHANGED <<arg, hookVars, refVars, browserVars, pageVars, selectedFile,
                   mounted, cleared>>

InitAnalyze ==
    /\ InitHook
    /\ InitPage
    /\ supported = {}
    /\ arg \in ApiReplies
    /\ ret = None

SpecAnalyze == InitAnalyze /\ [][callAnalyzeAudio]_vars

\* ------------------------------------------------------------------- claims
LiveTracks == {s \in Sessions : calls[s].track = "live"}
ActiveHandles == {s \in Sessions : calls[s].pc = "recording"}
Held(s) == recording # None /\ recording[1].url = s

\* C1: a second start() while a capture is started and not yet stopped never
\* gives two capture handles recording at once, nor two live input streams
\* feeding them.
C1_SingleActiveCapture ==
    /\ Cardinality(ActiveHandles) <= 1
    /\ Cardinality(ActiveHandles \cap LiveTracks) <= 1

\* C2: once the finalization of a stopped session has run to its end, that
\* session's input stream is released: none of its tracks is live.
C2_StreamReleasedAfterStop ==
    \A s \in Sessions : calls[s].pc = "done" => calls[s].track = "ended"

\* C3: the byte buffer assembled at finalization is the concatenation, in
\* arrival order, of every chunk the session's own capture handle emitted.
C3_BlobIsEmittedChunks ==
    \A s \in Sessions :
        calls[s].pc \in {"converting", "done"} =>
            calls[s].originalBlob = calls[s].emitted

\* C4: when decoding fails the transcoder hands back the bytes it was given
\* and finalization publishes an artifact holding exactly those captured bytes.
C4_FallbackKeepsCapturedBytes ==
    \A s \in Sessions :
        (calls[s].outcome = "fallback") =>
            /\ calls[s].pc = "done"
            /\ Held(s) => recording[1].blob.bytes = calls[s].originalBlob

C4_Witness ==
    \E s \in Sessions :
        /\ calls[s].outcome = "fallback"
        /\ Held(s)
        /\ Len(recording[1].blob.bytes) >= 2

CapturedExtension(mimeType) ==
    IF mimeType = "audio/ogg;codecs=opus" THEN "ogg" ELSE "webm"

\* C5: the recorded file is named .wav exactly when transcoding succeeded or
\* the capture was already WAV; after a failed decode it keeps the captured
\* extension (webm or ogg).
C5_ExtensionFollowsTranscoding ==
    \A s \in Sessions :
        Held(s) =>
            LET ext == recording[1].blob.name.ext
            IN  /\ ext = "wav" <=> calls[s].outcome \in {"converted", "passthrough"}
                /\ calls[s].outcome = "fallback" =>
                       ext = CapturedExtension(calls[s].mimeType)

SpecAcceptedTypes ==
    {"audio/wav", "audio/mpeg", "audio/mp3", "audio/flac", "audio/ogg",
     "audio/x-m4a", "audio/mp4", "audio/webm"}

PassesIngest(file) ==
    /\ file.size > 0
    /\ file.size <= 10485760
    /\ file.type # "" => file.type \in SpecAcceptedTypes

\* C6: every artifact handed to analyzeAudio has passed ingest validation: it
\* is not empty, not larger than 10,485,760 bytes and of an accepted type.
C6_OnlyValidatedSubmitted ==
    request # None => PassesIngest(request[1].audioFile)

\* C7: validateAudioFile rejects an empty artifact, one longer than
\* 10,485,760 bytes and one whose declared type is present and not accepted,
\* and accepts an artifact of exactly 10,485,760 bytes with an accepted type.
C7_ValidatorBoundaries ==
    ret # None =>
        /\ arg.size = 0 => ~ret[1].valid
        /\ arg.size > 10485760 => ~ret[1].valid
        /\ (arg.type # "" /\ arg.type \notin SpecAcceptedTypes) => ~ret[1].valid
        /\ (arg.size = 10485760 /\ arg.type \in SpecAcceptedTypes) => ret[1].valid

C7_Witness ==
    /\ ret # None
    /\ arg.size = 10485760
    /\ arg.type = "audio/wav"
    /\ ret[1].valid

SpecExtensions ==
    {<<".", "w", "a", "v">>, <<".", "m", "p", "3">>, <<".", "f", "l", "a", "c">>,
     <<".", "o", "g", "g">>, <<".", "m", "4", "a">>, <<".", "w", "e", "b", "m">>}

HasAudioExtension(name) ==
    \E e \in SpecExtensions : endsWith(toLowerCase(name), e)

\* C8: with no declared type the validator decides by the filename extension:
\* valid exactly when it is .wav, .mp3, .flac, .ogg, .m4a or .webm.
C8_ExtensionFallback ==
    (ret # None /\ arg.type = "" /\ arg.size > 0 /\ arg.size <= 10485760) =>
        (ret[1].valid <=> HasAudioExtension(arg.name))

CompressedTypes ==
    {"audio/webm;codecs=opus", "audio/webm", "audio/ogg;codecs=opus"}

\* C9: a capture whose type names no compressed container is not transcoded:
\* the published bytes are the captured bytes, labelled audio/wav and named .wav.
C9_UncompressedPassThrough ==
    \A s \in Sessions :
        (calls[s].pc \in {"converting", "done"}
            /\ calls[s].mimeType \notin CompressedTypes) =>
            /\ calls[s].pc = "done"
            /\ calls[s].outcome = "passthrough"
            /\ Held(s) =>
                  /\ recording[1].blob.bytes = calls[s].originalBlob
                  /\ recording[1].blob.type = "audio/wav"
                  /\ recording[1].blob.name.ext = "wav"

C9_Witness ==
    \E s \in Sessions :
        /\ calls[s].mimeType = "audio/wav"
        /\ calls[s].pc = "done"
        /\ Held(s)
        /\ Len(recording[1].blob.bytes) >= 2

\* C10: for N frames, C in {1, 2} channels and rate R the encoder returns
\* 44 + N*C*2 bytes whose header declares RIFF size 36 + N*C*2, PCM format 1,
\* C channels, rate R, byte rate R*C*2, block align C*2, 16 bits per sample
\* and data length N*C*2.
C10_WavHeader ==
    (ret # None /\ arg.numberOfChannels \in {1, 2}) =>
        LET bytes == ret[1]
            N     == arg.length
            C     == arg.numberOfChannels
            R     == arg.sampleRate
        IN  /\ Len(bytes) = 44 + N * C * 2
            /\ getUint32(bytes, 4) = 36 + N * C * 2
            /\ getUint16(bytes, 20) = 1
            /\ getUint16(bytes, 22) = C
            /\ getUint32(bytes, 24) = R
            /\ getUint32(bytes, 28) = R * C * 2
            /\ getUint16(bytes, 32) = C * 2
            /\ getUint16(bytes, 34) = 16
            /\ getUint32(bytes, 40) = N * C * 2

C10_Witness ==
    /\ ret # None
    /\ arg.numberOfChannels = 2
    /\ arg.length = 2
    /\ Len(ret[1]) = 52

\* The sample the encoder wrote for frame i of channel c.
EncodedSample(bytes, channels, i, c) == getInt16(bytes, 44 + 2 * (i * channels + c))

EncodedPlaces(buffer) ==
    {<<i, c>> : i \in 0..(buffer.length - 1),
                c \in 0..(Min(buffer.numberOfChannels, 2) - 1)}

\* C11: the encoder saturates: a sample above 1.0 is written as 32767, a
\* sample below -1.0 as -32767, and every written sample lies in
\* [-32767, 32767].
C11_Saturates ==
    ret # None =>
        \A p \in EncodedPlaces(arg) :
            LET in  == arg.channels[p[2] + 1][p[1] + 1]
                out == EncodedSample(ret[1], Min(arg.numberOfChannels, 2), p[1], p[2])
            IN  /\ in > 1000 => out = 32767
                /\ in < 0 - 1000 => out = 0 - 32767
                /\ out >= 0 - 32767 /\ out <= 32767

C11_Witness ==
    /\ ret # None
    /\ arg.length = 2 /\ arg.numberOfChannels = 2
    /\ arg.channels[1] = <<2000, 0 - 2000>>
    /\ arg.channels[2] = <<1000, 0 - 333>>
    /\ EncodedSample(ret[1], 2, 0, 0) = 32767
    /\ EncodedSample(ret[1], 2, 1, 0) = 0 - 32767
    /\ EncodedSample(ret[1], 2, 0, 1) = 32767

\* C12: clear() revokes the object URL of the artifact it finds held, and
\* leaves the artifact null, the live duration 0 and the error null.
C12_ClearReleases ==
    [][clearRecording =>
          /\ recording # None => recording[1].url \notin objectUrls'
          /\ recording' = None
          /\ duration' = 0
          /\ error' = None]_vars

C12_Witness ==
    \E s \in Sessions :
        /\ calls[s].pc = "done"
        /\ recording = None
        /\ s \notin objectUrls
        /\ duration = 0
        /\ error = None

Rejections == {"NotAllowedError", "NotFoundError"}
RejectedBefore(s) ==
    \E r \in Sessions : r < s /\ calls[r].pc = "failed" /\ calls[r].track = "none"

\* C13: a rejected microphone request ends start() with a non-empty error
\* surfaced, isRecording false and no stream or timer held; a later start()
\* clears the error and, once its request is granted, is Recording.
C13_RejectionLeavesReusable ==
    [][/\ \A s \in Sessions, reason \in Rejections :
              startRecordingRejected(s, reason) =>
                  /\ error' # None /\ error'[1] # ""
                  /\ ~isRecording'
                  /\ streamRef' = 0
                  /\ timers' = {}
       /\ \A s \in Sessions :
              (RejectedBefore(s) /\ startRecording(s)) => error' = None
       /\ \A s \in Sessions :
              (RejectedBefore(s) /\ startRecordingGranted(s)
                  /\ selectMimeType(supported) \in supported) =>
                  /\ isRecording' /\ calls'[s].pc = "recording"
                  /\ error' = None]_vars

HeldUrls == IF recording = None THEN {} ELSE {recording[1].url}

\* C14: every object URL created at a finalization has been revoked, except
\* the one of the artifact currently held.
C14_OnlyHeldUrlLive == objectUrls \subseteq HeldUrls

PhaseFlags == {f \in {"recording", "ready", "error"} :
                  \/ f = "recording" /\ isRecording
                  \/ f = "ready" /\ recording # None
                  \/ f = "error" /\ error # None}

\* C15: the observable state is exactly one of idle, recording, ready, error:
\* at most one of isRecording, a held artifact and a set error holds, and at
\* most one session is Recording.
C15_FourPhases ==
    /\ Cardinality(PhaseFlags) <= 1
    /\ Cardinality({s \in Sessions : calls[s].pc = "recording"}) <= 1

\* C16: after stop() on a recording session the controller eventually holds
\* that session's artifact, also when the decode never completes.
C16_FinalizationCompletes ==
    \A s \in Sessions : (calls[s].pc = "stopping") ~> Held(s)

\* C17: from stop() until the next start or clear no timer tick changes the
\* observable duration: the timer updates it only while Recording.
C17_DurationFrozenAfterStop ==
    [][((\E t \in Sessions : intervalTick(t)) /\ ~isRecording) =>
           duration' = duration]_vars

LowerCaseType(type) ==
    CASE type = "AUDIO/WAV" -> "audio/wav"
      [] type = "Audio/Webm" -> "audio/webm"
      [] OTHER -> type

\* C18: the validator compares declared types without regard to letter case:
\* a file gets the verdict of the same file with its type in lower case.
C18_TypeCaseInsensitive ==
    ret # None =>
        ret[1].valid = validateAudioFile([arg EXCEPT !.type = LowerCaseType(@)]).valid

\* C19: the duration of a finalized artifact is the wall-clock time from its
\* own session's start to the stop() call on it, whatever happens between
\* stop() and the end of finalization.
C19_DurationIsStartToStop ==
    \A s \in Sessions :
        /\ calls[s].pc \in {"converting", "stalled", "done"} =>
               calls[s].finalDuration = calls[s].stoppedAt - calls[s].startedAt
        /\ Held(s) => recording[1].duration = calls[s].stoppedAt - calls[s].startedAt

Settlements == {None} \cup {Some(b) : b \in DecodedBuffers}
FinalizationStep(s) ==
    \/ \E n \in 0..MaxChunkLen : onstop(s, n)
    \/ \E decoded \in Settlements : onstopConverted(s, decoded)

\* C21: a session's finalization releases that session's own stream and no
\* other: it neither stops the tracks of another session's stream nor clears
\* the reference to it, and when it ends its own stream is released.
C21_StreamOwnedBySession ==
    [][\A s \in Sessions :
          FinalizationStep(s) =>
              /\ \A r \in Sessions \ {s} : calls'[r].track = calls[r].track
              /\ streamRef \notin {0, s} => streamRef' = streamRef
              /\ calls'[s].pc = "done" => calls'[s].track = "ended"]_vars

Finalizing(s) == calls[s].pc \in {"converting", "stalled", "done"}
EmittedBy(byte) == byte \div 16

\* C22: the bytes assembled for a session were all emitted by that session's
\* own capture handle, and none of the bytes it emitted has been discarded.
C22_ChunksOfOwnSession ==
    \A s \in Sessions :
        Finalizing(s) =>
            LET blob == calls[s].originalBlob
            IN  /\ \A i \in DOMAIN blob : EmittedBy(blob[i]) = s
                /\ \A i \in DOMAIN calls[s].emitted :
                       \E j \in DOMAIN blob : blob[j] = calls[s].emitted[i]

\* C23: a start() that ended in the error state holds no live input stream:
\* the tracks of a stream granted before the failure are stopped and the
\* stream reference is cleared.
C23_FailedStartHoldsNoStream ==
    \A s \in Sessions :
        calls[s].pc = "failed" =>
            /\ calls[s].track # "live"
            /\ streamRef # s

PreferenceList ==
    <<"audio/wav", "audio/webm;codecs=opus", "audio/webm", "audio/ogg;codecs=opus">>

FirstSupported(set) ==
    PreferenceList[CHOOSE i \in DOMAIN PreferenceList :
                      /\ PreferenceList[i] \in set
                      /\ \A j \in 1..(i - 1) : PreferenceList[j] \notin set]

HandleCreated(s) == calls[s].pc \notin {"idle", "requesting", "failed"}

\* C24: a capture handle is created with a supported type, the first supported
\* entry of [audio/wav, audio/webm;codecs=opus, audio/webm,
\* audio/ogg;codecs=opus], and the bytes assembled at finalization carry it.
C24_FirstSupportedType ==
    \A s \in Sessions :
        HandleCreated(s) =>
            /\ calls[s].mimeType \in supported
            /\ calls[s].mimeType = FirstSupported(supported)
            /\ Finalizing(s) => calls[s].originalType = calls[s].mimeType

C24_Witness ==
    \E s \in Sessions :
        /\ supported = {"audio/webm;codecs=opus", "audio/webm"}
        /\ calls[s].pc = "done"
        /\ calls[s].originalType = "audio/webm;codecs=opus"

\* 16-bit PCM of a sample given in thousandths: clamped to [-1, 1], times
\* 32767, fraction dropped.
ExpectedPcm(x) ==
    IF x >= 1000 THEN 32767
    ELSE IF x <= 0 - 1000 THEN 0 - 32767
    ELSE IF x >= 0 THEN (x * 32767) \div 1000
    ELSE 0 - (((0 - x) * 32767) \div 1000)

\* C25: for N frames and C channels the sample of frame i, channel c is the
\* little-endian 16-bit value at byte offset 44 + (i*C + c)*2: frame by frame,
\* channel 0 before channel 1.
C25_Interleaved ==
    (ret # None /\ arg.numberOfChannels \in {1, 2}) =>
        \A i \in 0..(arg.length - 1), c \in 0..(arg.numberOfChannels - 1) :
            getInt16(ret[1], 44 + (i * arg.numberOfChannels + c) * 2)
                = ExpectedPcm(arg.channels[c + 1][i + 1])

C25_Witness ==
    /\ ret # None
    /\ arg.length = 2 /\ arg.numberOfChannels = 2
    /\ arg.channels[1] = <<1000, 0>>
    /\ arg.channels[2] = <<0 - 333, 2000>>
    /\ getInt16(ret[1], 44) = 32767
    /\ getInt16(ret[1], 46) = 0 - 10911
    /\ getInt16(ret[1], 48) = 0
    /\ getInt16(ret[1], 50) = 32767

\* C26: given a waveform with a channel shorter than the declared length the
\* encoder fails with an error: it returns no output.
C26_MalformedFailsLoudly ==
    ret # None => ret[1].threw

\* C27: when the component unmounts the cleanup runs: the duration timer is
\* cleared, the tracks of the live input stream are stopped and the held
\* object URL is revoked.
C27_UnmountCleansUp ==
    [][unmount =>
          /\ intervalRef # 0 => intervalRef \notin timers'
          /\ streamRef # 0 => calls'[streamRef].track = "ended"
          /\ recording # None => recording[1].url \notin objectUrls']_vars

\* C28: from the return of clear() until start() is next called the
\* controller is Idle: isRecording is false and no artifact is held, whatever
\* capture or finalization was under way when clear() was called.
C28_IdleAfterClear ==
    cleared => (~isRecording /\ recording = None)

\* C29: every submission settles the page: once handleAudioSubmission has
\* finished isAnalyzing is false, whether analyzeAudio returned or threw;
\* results are set only by a returned analysis, and a failed one leaves them
\* unchanged.
C29_SubmissionSettles ==
    /\ [](request = None => ~isAnalyzing)
    /\ [][/\ analysisReturned => (~isAnalyzing' /\ results' # None)
          /\ analysisFailed => (~isAnalyzing' /\ results' = results)
          /\ (results' # results /\ results' # None) => analysisReturned]_vars

C29_Witness ==
    /\ request = None
    /\ ~isAnalyzing
    /\ results = None
    /\ currentFilename # None

ServerSaysFailed(reply) ==
    /\ reply.kind = "response"
    /\ ~reply.data.isString
    /\ ~reply.data.success
    /\ reply.data.message # None \/ reply.data.detail # None

ServerMessages(reply) ==
    {m[1] : m \in {reply.data.message, reply.data.detail} \ {None}}

\* C30: analyzeAudio fails only by throwing ApiError, and when the service
\* answers success=false with a message or detail, at any HTTP status, the
\* ApiError carries that server message and the status.
C30_ServerMessageCarried ==
    ret # None =>
        /\ ret[1].kind \in {"returned", "ApiError"}
        /\ ServerSaysFailed(arg) =>
               /\ ret[1].kind = "ApiError"
               /\ ret[1].message \in ServerMessages(arg)
               /\ ret[1].statusCode = Some(arg.status)

====
